---- MODULE Spec2Model ----
\* Model of the TPC-H benchmark harness.  Spec is execute_tpch_queries.py:
\* main() and the functions it calls, one step per session call.  SpecAdaptive
\* is warmup_queries of warmup_tpch.py, SpecWarmups runs either script, and
\* SpecNorm is read_query_file, which both scripts share.  Every session call
\* (connect, cursor, execute, fetch, commit, rollback) ends in one of three
\* outcomes: it returns ("ok"), it raises a database error, a subclass of
\* Exception ("err"), or a KeyboardInterrupt is delivered while it blocks
\* ("int").
EXTENDS Integers, Sequences, FiniteSets, TLC

\* ------------------------------------------------------------------ bounds
MaxSelId == 3
\* --queries lists are drawn from 1..MaxSelId

MaxSelLen == 2
\* longest --queries list

MaxMissId == 1
\* the query files 1..MaxMissId may be absent from --query-dir

MaxFailId == 2
\* the benchmark queries 1..MaxFailId may raise a database error

MaxIter == 2
\* largest --warmup-iterations

MaxRounds == 2
\* largest --warmup-rounds of warmup_tpch.py

MaxMem == 10
\* memory samples, and the --target-memory values, are whole GB in 0..MaxMem

MaxTextLen == 4
\* longest template text given to read_query_file, in characters

\* -------------------------------------------------------- program constants
SuiteSize == 22
\* range(1, 23): TPC-H has 22 queries

NumSettings == 4
\* the four SET statements issued after connecting

WarmupSubset == <<1, 3, 6, 12, 14>>

Outcomes == {"ok", "err", "int"}

VARIABLES
    \* command line arguments and query storage
    argQueries, present, skipWarmup, warmupIterations, output,
    \* control
    pc, inHandler, cfgIdx, iteration, wi, qi,
    \* the session
    acquired, connOpen, closeCount, aborted,
    \* the failure that left a phase, and the exit status of main()
    failPhase, failKind, failCall, swallowed, exitStatus,
    \* activate_dcsim
    startIssued, startExecOk, activated, actCalls,
    \* deactivate_dcsim
    deactCalls, deactCursors, endIssued, deactOk, deactLogged,
    \* run_tpch_queries
    runEntered, runReturned, visited, attempts, results, runCommits,
    \* reporter
    summaryCalls, saveCalls,
    \* warmup_phase
    warmAttempts, warmCommits,
    \* warmup_tpch.py, warmup_queries: arguments, control, cursor state
    warmupRounds, targetMemory, wpc, roundNum, wqi, curClosed,
    \* warmup_queries: the last memory sample, the final one (-1: none),
    \* whether the last probe failed, and the result
    sysMem, finalMem, probeFailed, wResult, advisory, wFailCall, wFailKind,
    \* warmup_queries: history of the calls issued
    execCount, execAfterReach, perQueryReached, roundEndReached,
    exitCommits, roundCommits, wAborted, wQueryFailed,
    \* read_query_file: the template, the text returned for it, the text
    \* returned for that text, and the position
    text, once, twice, npc

inputs == <<argQueries, present, skipWarmup, warmupIterations, output>>
loopv  == <<cfgIdx, iteration, wi, qi>>
sess   == <<acquired, connOpen, closeCount, aborted>>
failv  == <<failPhase, failKind, failCall, swallowed>>
acth   == <<startIssued, startExecOk, activated>>
deah   == <<deactCalls, deactCursors, endIssued, deactOk, deactLogged>>
runh   == <<runEntered, runReturned, visited, attempts, results>>
reph   == <<summaryCalls, saveCalls>>
warmh  == <<warmAttempts, warmCommits>>
calls  == <<actCalls, runCommits>>
wargs  == <<warmupRounds, targetMemory>>
wctl   == <<wpc, roundNum, wqi, curClosed>>
wmem   == <<sysMem, finalMem, probeFailed>>
wres   == <<wResult, advisory, wFailCall, wFailKind>>
whist  == <<execCount, execAfterReach, perQueryReached, roundEndReached,
            exitCommits, roundCommits, wAborted, wQueryFailed>>
adaptv == <<wargs, wctl, wmem, wres, whist>>
normv  == <<text, once, twice, npc>>
other  == <<adaptv, normv>>
aux    == <<calls, other>>

vars == <<inputs, pc, inHandler, loopv, sess, failv, exitStatus,
          acth, deah, runh, reph, warmh, aux>>

\* ----------------------------------------------------------------- helpers
Range(s) == {s[i] : i \in 1..Len(s)}

SeqsUpTo(S, n) == UNION {[1..k -> S] : k \in 1..n}

\* Mutant: the selection sorted ascending with repeats removed.
QueriesToRun_Sorted ==
    LET base == IF argQueries = <<>> THEN [i \in 1..SuiteSize |-> i] ELSE argQueries
        S == {base[i] : i \in 1..Len(base)}
    IN  [i \in 1..Cardinality(S) |->
            CHOOSE x \in S : Cardinality({y \in S : y < x}) = i - 1]

\* queries_to_run inside run_tpch_queries and warmup_phase.  argQueries is the
\* list parsed from --queries, and <<>> stands for None (the option absent or
\* empty): a parsed list is never empty.
QueriesToRun ==
    IF argQueries = <<>> THEN [i \in 1..SuiteSize |-> i] ELSE argQueries

InList(q) == q \in Range(QueriesToRun)

WarmupList == SelectSeq(WarmupSubset, InList)

\* len(cur.fetchall()) for query q: the database content is fixed during a run
FetchCount(q) == q % 3

SuccessOutcome(q) == [time |-> 1, rows |-> FetchCount(q), success |-> TRUE]

FailedOutcome == [time |-> 0, rows |-> 0, success |-> FALSE, error |-> "e"]

\* results[q] = r
Record(q, r) == (q :> r) @@ results

ConnectBlock == {"connect", "cfg_cursor", "cfg_exec", "cfg_commit"}

PhaseOf(p) ==
    CASE p \in ConnectBlock -> "connect"
      [] p \in {"w_cursor", "w_loop", "w_exec", "w_fetch", "w_rollback", "w_commit"}
            -> "warmup"
      [] p \in {"a_cursor", "a_exec", "a_commit"} -> "activate"
      [] p \in {"r_cursor", "r_loop", "r_exec", "r_fetch", "r_rollback", "r_commit"}
            -> "run"
      [] p \in {"m_deact", "d_cursor", "d_exec", "d_commit"} -> "deactivate"
      [] p \in {"summary", "save"} -> "report"
      [] OTHER -> "none"

Goto(p) == pc' = p /\ UNCHANGED <<inHandler, failv, exitStatus>>

\* deactivate_dcsim prints "TPCH ERROR: Failed to end simulation" for the
\* exceptions its except Exception clause sees: an Exception raised by the end
\* call or by the commit.  The cursor is created outside the try, and a
\* KeyboardInterrupt is no Exception.
DeactivateLogs(p, o) == p \in {"d_exec", "d_commit"} /\ o = "err"

NotSwallowed == [call |-> "none", kind |-> "none", logged |-> FALSE]

\* An exception of kind o leaves the call at pc.
\*  - inside a handler of main() it is swallowed by the bare except, and the
\*    handler goes on to return 1;
\*  - in the connection block a database error is caught and main() returns 1
\*    without closing, and a KeyboardInterrupt leaves main() uncaught;
\*  - in the try body it reaches the matching handler of main().
Throw(o) ==
    IF inHandler
    THEN /\ pc' = "finally_ret1"
         /\ swallowed' = [call |-> pc, kind |-> o, logged |-> DeactivateLogs(pc, o)]
         /\ UNCHANGED <<inHandler, failPhase, failKind, failCall, exitStatus>>
    ELSE /\ failPhase' = PhaseOf(pc)
         /\ failKind' = o
         /\ failCall' = pc
         /\ UNCHANGED <<inHandler, swallowed>>
         /\ IF pc \in ConnectBlock
            THEN /\ pc' = "done"
                 /\ exitStatus' = IF o = "err" THEN "1" ELSE "raised"
            ELSE /\ pc' = IF o = "int" THEN "h_kbd" ELSE "h_exc"
                 /\ UNCHANGED exitStatus

\* State of warmup_tpch.py before warmup_queries is called
AdaptiveStart ==
    /\ roundNum = 0 /\ wqi = 1 /\ curClosed = FALSE
    /\ sysMem = 0 /\ finalMem = -1 /\ probeFailed = FALSE
    /\ wResult = "running" /\ advisory = FALSE
    /\ wFailCall = "none" /\ wFailKind = "none"
    /\ execCount = 0 /\ execAfterReach = 0
    /\ perQueryReached = FALSE /\ roundEndReached = FALSE
    /\ exitCommits = 0 /\ roundCommits = 0
    /\ wAborted = FALSE /\ wQueryFailed = FALSE

\* warmup_tpch.py is not the script being run
AdaptiveIdle ==
    /\ warmupRounds = 0 /\ targetMemory = 1 /\ wpc = "off"
    /\ AdaptiveStart

\* read_query_file is not under study
NormIdle == text = <<>> /\ once = <<>> /\ twice = <<>> /\ npc = "off"

\* -------------------------------------------------------------------- Init
Init ==
    /\ argQueries \in {<<>>} \cup SeqsUpTo(1..MaxSelId, MaxSelLen)
    /\ present \in {(1..SuiteSize) \ m : m \in SUBSET (1..MaxMissId)}
    /\ skipWarmup \in BOOLEAN
    /\ warmupIterations \in 0..MaxIter
    /\ output \in BOOLEAN
    /\ pc = "connect"
    /\ inHandler = FALSE
    /\ cfgIdx = 1 /\ iteration = 0 /\ wi = 1 /\ qi = 1
    /\ acquired = FALSE /\ connOpen = FALSE /\ closeCount = 0 /\ aborted = FALSE
    /\ failPhase = "none" /\ failKind = "none" /\ failCall = "none"
    /\ swallowed = NotSwallowed
    /\ actCalls = <<>> /\ runCommits = 0
    /\ AdaptiveIdle
    /\ NormIdle
    /\ exitStatus = "running"
    /\ startIssued = 0 /\ startExecOk = FALSE /\ activated = FALSE
    /\ deactCalls = 0 /\ deactCursors = 0 /\ endIssued = 0
    /\ deactOk = FALSE /\ deactLogged = 0
    /\ runEntered = FALSE /\ runReturned = FALSE
    /\ visited = <<>> /\ attempts = <<>> /\ results = <<>>
    /\ summaryCalls = 0 /\ saveCalls = 0
    /\ warmAttempts = 0 /\ warmCommits = 0

\* ------------------------------------------------- main(): connection block
\* psycopg2.connect(...); conn.autocommit = False
Connect(o) ==
    /\ pc = "connect"
    /\ IF o = "ok"
       THEN /\ acquired' = TRUE /\ connOpen' = TRUE
            /\ Goto("cfg_cursor")
       ELSE /\ Throw(o)
            /\ UNCHANGED <<acquired, connOpen>>
    /\ UNCHANGED <<inputs, aux, loopv, closeCount, aborted, acth, deah, runh, reph, warmh>>

\* cur = conn.cursor()
CfgCursor(o) ==
    /\ pc = "cfg_cursor"
    /\ IF o = "ok" THEN Goto("cfg_exec") ELSE Throw(o)
    /\ UNCHANGED <<inputs, aux, loopv, sess, acth, deah, runh, reph, warmh>>

\* cur.execute("SET ...") four times
CfgExec(o) ==
    /\ pc = "cfg_exec"
    /\ IF o = "ok"
       THEN IF cfgIdx < NumSettings
            THEN cfgIdx' = cfgIdx + 1 /\ Goto("cfg_exec")
            ELSE UNCHANGED cfgIdx /\ Goto("cfg_commit")
       ELSE UNCHANGED cfgIdx /\ Throw(o)
    /\ UNCHANGED <<inputs, aux, iteration, wi, qi, sess, acth, deah, runh, reph, warmh>>

\* conn.commit(); cur.close(); then the try body: warmup unless --skip-warmup
CfgCommit(o) ==
    /\ pc = "cfg_commit"
    /\ IF o = "ok"
       THEN Goto(IF skipWarmup THEN "a_cursor" ELSE "w_cursor")
       ELSE Throw(o)
    /\ UNCHANGED <<inputs, aux, loopv, sess, acth, deah, runh, reph, warmh>>

\* ------------------------------------------------------------ warmup_phase
\* cur = conn.cursor(), before the loops
WCursor(o) ==
    /\ pc = "w_cursor"
    /\ IF o = "ok"
       THEN iteration' = 0 /\ wi' = 1 /\ Goto("w_loop")
       ELSE UNCHANGED <<iteration, wi>> /\ Throw(o)
    /\ UNCHANGED <<inputs, aux, cfgIdx, qi, sess, acth, deah, runh, reph, warmh>>

\* loop control of the two nested for loops, the os.path.exists test, and the
\* cur.close() and return at the end
WLoop ==
    /\ pc = "w_loop"
    /\ IF iteration >= warmupIterations
       THEN Goto("a_cursor") /\ UNCHANGED wi
       ELSE IF wi > Len(WarmupList)
       THEN Goto("w_commit") /\ UNCHANGED wi
       ELSE IF WarmupList[wi] \notin present
       THEN Goto("w_loop") /\ wi' = wi + 1
       ELSE Goto("w_exec") /\ UNCHANGED wi
    /\ UNCHANGED <<inputs, aux, cfgIdx, iteration, qi, sess, acth, deah, runh, reph, warmh>>

\* cur.execute(query); a database error is caught and leads to conn.rollback()
WExec(o) ==
    /\ pc = "w_exec"
    /\ warmAttempts' = warmAttempts + 1
    /\ CASE o = "ok"  -> Goto("w_fetch") /\ UNCHANGED aborted
         [] o = "err" -> Goto("w_rollback") /\ aborted' = TRUE
         [] o = "int" -> Throw(o) /\ UNCHANGED aborted
    /\ UNCHANGED <<inputs, aux, loopv, acquired, connOpen, closeCount, acth, deah,
                   runh, reph, warmCommits>>

\* cur.fetchall()
WFetch(o) ==
    /\ pc = "w_fetch"
    /\ CASE o = "ok"  -> Goto("w_loop") /\ wi' = wi + 1 /\ UNCHANGED aborted
         [] o = "err" -> Goto("w_rollback") /\ aborted' = TRUE /\ UNCHANGED wi
         [] o = "int" -> Throw(o) /\ UNCHANGED <<aborted, wi>>
    /\ UNCHANGED <<inputs, aux, cfgIdx, iteration, qi, acquired, connOpen, closeCount,
                   acth, deah, runh, reph, warmh>>

\* Mutant: after a failed warmup query the rest of the iteration is dropped.
WRollback_Breaks(o) ==
    /\ pc = "w_rollback"
    /\ IF o = "ok"
       THEN Goto("w_loop") /\ wi' = Len(WarmupList) + 1 /\ aborted' = FALSE
       ELSE Throw(o) /\ UNCHANGED <<aborted, wi>>
    /\ UNCHANGED <<inputs, aux, cfgIdx, iteration, qi, acquired, connOpen, closeCount,
                   acth, deah, runh, reph, warmh>>

\* conn.rollback() in the except clause: its own failure is not caught
WRollback(o) ==
    /\ pc = "w_rollback"
    /\ IF o = "ok"
       THEN Goto("w_loop") /\ wi' = wi + 1 /\ aborted' = FALSE
       ELSE Throw(o) /\ UNCHANGED <<aborted, wi>>
    /\ UNCHANGED <<inputs, aux, cfgIdx, iteration, qi, acquired, connOpen, closeCount,
                   acth, deah, runh, reph, warmh>>

\* conn.commit() once per iteration
WCommit(o) ==
    /\ pc = "w_commit"
    /\ IF o = "ok"
       THEN /\ Goto("w_loop")
            /\ iteration' = iteration + 1 /\ wi' = 1
            /\ warmCommits' = warmCommits + 1
            /\ aborted' = FALSE
       ELSE Throw(o) /\ UNCHANGED <<iteration, wi, warmCommits, aborted>>
    /\ UNCHANGED <<inputs, aux, cfgIdx, qi, acquired, connOpen, closeCount,
                   acth, deah, runh, reph, warmAttempts>>

\* ---------------------------------------------------------- activate_dcsim
\* cur = conn.cursor(), outside the try
ACursor(o) ==
    /\ pc = "a_cursor"
    /\ IF o = "ok" THEN Goto("a_exec") ELSE Throw(o)
    /\ UNCHANGED <<inputs, aux, loopv, sess, acth, deah, runh, reph, warmh>>

\* cur.execute("SELECT dcsim_start_simulation();")
AExec(o) ==
    /\ pc = "a_exec"
    /\ startIssued' = startIssued + 1
    /\ actCalls' = Append(actCalls, "start")
    /\ IF o = "ok"
       THEN Goto("a_commit") /\ startExecOk' = TRUE /\ UNCHANGED aborted
       ELSE Throw(o) /\ UNCHANGED startExecOk
            /\ aborted' = IF o = "err" THEN TRUE ELSE aborted
    /\ UNCHANGED <<inputs, runCommits, other, loopv, acquired, connOpen, closeCount,
                   activated, deah, runh, reph, warmh>>

\* Mutant: a failed commit of the start call is swallowed and the run goes on.
ACommit_IgnoresFailure(o) ==
    /\ pc = "a_commit"
    /\ Goto("r_cursor")
    /\ activated' = (o = "ok")
    /\ actCalls' = Append(actCalls, "commit")
    /\ UNCHANGED <<inputs, runCommits, other, loopv, sess, startIssued, startExecOk,
                   deah, runh, reph, warmh>>

\* conn.commit(); finally cur.close(); return to main()
ACommit(o) ==
    /\ pc = "a_commit"
    /\ IF o = "ok"
       THEN Goto("r_cursor") /\ activated' = TRUE
       ELSE Throw(o) /\ UNCHANGED activated
    /\ actCalls' = Append(actCalls, "commit")
    /\ UNCHANGED <<inputs, runCommits, other, loopv, sess, startIssued, startExecOk,
                   deah, runh, reph, warmh>>

\* -------------------------------------------------------- run_tpch_queries
\* results = {}; cur = conn.cursor()
RCursor(o) ==
    /\ pc = "r_cursor"
    /\ runEntered' = TRUE
    /\ results' = <<>>
    /\ IF o = "ok" THEN Goto("r_loop") /\ qi' = 1 ELSE Throw(o) /\ UNCHANGED qi
    /\ UNCHANGED <<inputs, aux, cfgIdx, iteration, wi, sess, acth, deah,
                   runReturned, visited, attempts, reph, warmh>>

\* Mutant: a missing query file ends the loop instead of being skipped.
RLoop_BreakOnMissing ==
    /\ pc = "r_loop"
    /\ IF qi > Len(QueriesToRun)
       THEN /\ Goto("m_deact")
            /\ runReturned' = TRUE
            /\ UNCHANGED <<qi, visited>>
       ELSE /\ visited' = Append(visited, QueriesToRun[qi])
            /\ IF QueriesToRun[qi] \notin present
               THEN Goto("m_deact") /\ runReturned' = TRUE /\ UNCHANGED qi
               ELSE Goto("r_exec") /\ UNCHANGED <<qi, runReturned>>
    /\ UNCHANGED <<inputs, aux, cfgIdx, iteration, wi, sess, acth, deah,
                   runEntered, attempts, results, reph, warmh>>

\* for qnum in queries_to_run, the os.path.exists test (a missing file is
\* skipped with a warning), and cur.close(); return results at the end
RLoop ==
    /\ pc = "r_loop"
    /\ IF qi > Len(QueriesToRun)
       THEN /\ Goto("m_deact")
            /\ runReturned' = TRUE
            /\ UNCHANGED <<qi, visited>>
       ELSE /\ visited' = Append(visited, QueriesToRun[qi])
            /\ UNCHANGED runReturned
            /\ IF QueriesToRun[qi] \notin present
               THEN Goto("r_loop") /\ qi' = qi + 1
               ELSE Goto("r_exec") /\ UNCHANGED qi
    /\ UNCHANGED <<inputs, aux, cfgIdx, iteration, wi, sess, acth, deah,
                   runEntered, attempts, results, reph, warmh>>

\* Mutant: a database error of execute is not caught by run_tpch_queries.
RExec_Propagates(o) ==
    /\ pc = "r_exec"
    /\ o = "err" => QueriesToRun[qi] <= MaxFailId
    /\ IF o = "ok" THEN Goto("r_fetch") ELSE Throw(o)
    /\ UNCHANGED <<inputs, aux, loopv, sess, acth, deah, runh, reph, warmh>>

\* cur.execute(query): a database error is caught, a Failed outcome is
\* recorded, and conn.rollback() follows
RExec(o) ==
    /\ pc = "r_exec"
    /\ o = "err" => QueriesToRun[qi] <= MaxFailId
    /\ CASE o = "ok"  -> /\ Goto("r_fetch")
                         /\ UNCHANGED <<aborted, attempts, results>>
         [] o = "err" -> /\ Goto("r_rollback")
                         /\ aborted' = TRUE
                         /\ results' = Record(QueriesToRun[qi], FailedOutcome)
                         /\ attempts' = Append(attempts,
                                [q |-> QueriesToRun[qi], ok |-> FALSE])
         [] o = "int" -> /\ Throw(o)
                         /\ UNCHANGED <<aborted, attempts, results>>
    /\ UNCHANGED <<inputs, aux, loopv, acquired, connOpen, closeCount, acth, deah,
                   runEntered, runReturned, visited, reph, warmh>>

\* Mutant: the except clause records the failure without conn.rollback().
RFetch_NoRollback(o) ==
    /\ pc = "r_fetch"
    /\ o = "err" => QueriesToRun[qi] <= MaxFailId
    /\ CASE o = "ok"  -> /\ Goto("r_commit")
                         /\ results' = Record(QueriesToRun[qi],
                                              SuccessOutcome(QueriesToRun[qi]))
                         /\ attempts' = Append(attempts,
                                [q |-> QueriesToRun[qi], ok |-> TRUE])
                         /\ UNCHANGED aborted
         [] o = "err" -> /\ Goto("r_commit")
                         /\ aborted' = TRUE
                         /\ results' = Record(QueriesToRun[qi], FailedOutcome)
                         /\ attempts' = Append(attempts,
                                [q |-> QueriesToRun[qi], ok |-> FALSE])
         [] o = "int" -> /\ Throw(o)
                         /\ UNCHANGED <<aborted, attempts, results>>
    /\ UNCHANGED <<inputs, aux, loopv, acquired, connOpen, closeCount, acth, deah,
                   runEntered, runReturned, visited, reph, warmh>>

\* result_count = len(cur.fetchall()), then the Success outcome is recorded
RFetch(o) ==
    /\ pc = "r_fetch"
    /\ o = "err" => QueriesToRun[qi] <= MaxFailId
    /\ CASE o = "ok"  -> /\ Goto("r_commit")
                         /\ results' = Record(QueriesToRun[qi],
                                              SuccessOutcome(QueriesToRun[qi]))
                         /\ attempts' = Append(attempts,
                                [q |-> QueriesToRun[qi], ok |-> TRUE])
                         /\ UNCHANGED aborted
         [] o = "err" -> /\ Goto("r_rollback")
                         /\ aborted' = TRUE
                         /\ results' = Record(QueriesToRun[qi], FailedOutcome)
                         /\ attempts' = Append(attempts,
                                [q |-> QueriesToRun[qi], ok |-> FALSE])
         [] o = "int" -> /\ Throw(o)
                         /\ UNCHANGED <<aborted, attempts, results>>
    /\ UNCHANGED <<inputs, aux, loopv, acquired, connOpen, closeCount, acth, deah,
                   runEntered, runReturned, visited, reph, warmh>>

\* conn.rollback() in the except clause: its own failure is not caught
RRollback(o) ==
    /\ pc = "r_rollback"
    /\ IF o = "ok"
       THEN Goto("r_commit") /\ aborted' = FALSE
       ELSE Throw(o) /\ UNCHANGED aborted
    /\ UNCHANGED <<inputs, aux, loopv, acquired, connOpen, closeCount, acth, deah,
                   runh, reph, warmh>>

\* conn.commit() after every attempted query
RCommit(o) ==
    /\ pc = "r_commit"
    /\ runCommits' = runCommits + 1
    /\ IF o = "ok"
       THEN Goto("r_loop") /\ qi' = qi + 1 /\ aborted' = FALSE
       ELSE Throw(o) /\ UNCHANGED <<qi, aborted>>
    /\ UNCHANGED <<inputs, actCalls, other, cfgIdx, iteration, wi, acquired, connOpen, closeCount,
                   acth, deah, runh, reph, warmh>>

\* -------------------------------------------------------- deactivate_dcsim
\* main() calls deactivate_dcsim(conn) after run_tpch_queries returned
MainDeactivate ==
    /\ pc = "m_deact"
    /\ deactCalls' = deactCalls + 1
    /\ Goto("d_cursor")
    /\ UNCHANGED <<inputs, aux, loopv, sess, acth, deactCursors, endIssued, deactOk,
                   deactLogged, runh, reph, warmh>>

\* Mutant: the KeyboardInterrupt handler returns 1 without deactivating.
HandleInterrupt_NoDeactivate ==
    /\ pc = "h_kbd"
    /\ pc' = "finally_ret1" /\ inHandler' = TRUE
    /\ UNCHANGED <<inputs, aux, loopv, sess, failv, exitStatus, acth, deah, runh,
                   reph, warmh>>

\* except KeyboardInterrupt: try: deactivate_dcsim(conn) except: pass; return 1
HandleInterrupt ==
    /\ pc = "h_kbd"
    /\ deactCalls' = deactCalls + 1
    /\ pc' = "d_cursor" /\ inHandler' = TRUE
    /\ UNCHANGED <<inputs, aux, loopv, sess, failv, exitStatus, acth, deactCursors,
                   endIssued, deactOk, deactLogged, runh, reph, warmh>>

\* Mutant: the handler closes the session before it deactivates.
HandleException_ClosesFirst ==
    /\ pc = "h_exc"
    /\ deactCalls' = deactCalls + 1
    /\ closeCount' = closeCount + 1 /\ connOpen' = FALSE
    /\ pc' = "d_cursor" /\ inHandler' = TRUE
    /\ UNCHANGED <<inputs, aux, loopv, acquired, aborted, failv, exitStatus, acth,
                   deactCursors, endIssued, deactOk, deactLogged, runh, reph, warmh>>

\* except Exception: try: deactivate_dcsim(conn) except: pass; return 1
HandleException ==
    /\ pc = "h_exc"
    /\ deactCalls' = deactCalls + 1
    /\ pc' = "d_cursor" /\ inHandler' = TRUE
    /\ UNCHANGED <<inputs, aux, loopv, sess, failv, exitStatus, acth, deactCursors,
                   endIssued, deactOk, deactLogged, runh, reph, warmh>>

\* cur = conn.cursor(), outside the try of deactivate_dcsim
DCursor(o) ==
    /\ pc = "d_cursor"
    /\ IF o = "ok"
       THEN Goto("d_exec") /\ deactCursors' = deactCursors + 1
       ELSE Throw(o) /\ UNCHANGED deactCursors
    /\ UNCHANGED <<inputs, aux, loopv, sess, acth, deactCalls, endIssued, deactOk,
                   deactLogged, runh, reph, warmh>>

\* cur.execute("SELECT dcsim_end_simulation();"); except Exception logs and
\* re-raises, a KeyboardInterrupt passes unlogged
DExec(o) ==
    /\ pc = "d_exec"
    /\ endIssued' = endIssued + 1
    /\ CASE o = "ok"  -> Goto("d_commit") /\ UNCHANGED <<deactLogged, aborted>>
         [] o = "err" -> Throw(o) /\ deactLogged' = deactLogged + 1
                         /\ aborted' = TRUE
         [] o = "int" -> Throw(o) /\ UNCHANGED <<deactLogged, aborted>>
    /\ UNCHANGED <<inputs, aux, loopv, acquired, connOpen, closeCount, acth,
                   deactCalls, deactCursors, deactOk, runh, reph, warmh>>

\* Mutant: the summary is skipped when no query succeeded.
DCommit_NoSummaryWhenAllFailed(o) ==
    /\ pc = "d_commit"
    /\ CASE o = "ok"  -> /\ Goto(IF inHandler THEN "finally_ret1"
                                 ELSE IF \A q \in DOMAIN results : ~results[q].success
                                 THEN "finally_ok" ELSE "summary")
                         /\ deactOk' = TRUE
                         /\ UNCHANGED deactLogged
         [] o = "err" -> Throw(o) /\ deactLogged' = deactLogged + 1
                         /\ UNCHANGED deactOk
         [] o = "int" -> Throw(o) /\ UNCHANGED <<deactLogged, deactOk>>
    /\ UNCHANGED <<inputs, aux, loopv, sess, acth, deactCalls, deactCursors,
                   endIssued, runh, reph, warmh>>

\* conn.commit(); finally cur.close(); return to the caller in main()
DCommit(o) ==
    /\ pc = "d_commit"
    /\ CASE o = "ok"  -> /\ Goto(IF inHandler THEN "finally_ret1" ELSE "summary")
                         /\ deactOk' = TRUE
                         /\ UNCHANGED deactLogged
         [] o = "err" -> Throw(o) /\ deactLogged' = deactLogged + 1
                         /\ UNCHANGED deactOk
         [] o = "int" -> Throw(o) /\ UNCHANGED <<deactLogged, deactOk>>
    /\ UNCHANGED <<inputs, aux, loopv, sess, acth, deactCalls, deactCursors,
                   endIssued, runh, reph, warmh>>

\* ----------------------------------------------------------------- reporter
\* print_results_summary(results); then save_results if --output was given
Summary(o) ==
    /\ pc = "summary"
    /\ summaryCalls' = summaryCalls + 1
    /\ IF o = "ok"
       THEN Goto(IF output THEN "save" ELSE "finally_ok")
       ELSE Throw(o)
    /\ UNCHANGED <<inputs, aux, loopv, sess, acth, deah, runh, saveCalls, warmh>>

\* save_results(results, args.output)
Save(o) ==
    /\ pc = "save"
    /\ saveCalls' = saveCalls + 1
    /\ IF o = "ok" THEN Goto("finally_ok") ELSE Throw(o)
    /\ UNCHANGED <<inputs, aux, loopv, sess, acth, deah, runh, summaryCalls, warmh>>

\* ------------------------------------------------------------------ finally
\* finally: conn.close(); then return 0, or the return 1 a handler left pending
Close ==
    /\ pc \in {"finally_ok", "finally_ret1"}
    /\ closeCount' = closeCount + 1
    /\ connOpen' = FALSE
    /\ exitStatus' = IF pc = "finally_ok" THEN "0" ELSE "1"
    /\ pc' = "done"
    /\ UNCHANGED <<inputs, aux, inHandler, loopv, acquired, aborted, failv,
                   acth, deah, runh, reph, warmh>>

\* -------------------------------------------------------------------- Next
Next ==
    \/ \E o \in Outcomes : Connect(o)
    \/ \E o \in Outcomes : CfgCursor(o)
    \/ \E o \in Outcomes : CfgExec(o)
    \/ \E o \in Outcomes : CfgCommit(o)
    \/ \E o \in Outcomes : WCursor(o)
    \/ WLoop
    \/ \E o \in Outcomes : WExec(o)
    \/ \E o \in Outcomes : WFetch(o)
    \/ \E o \in Outcomes : WRollback(o)
    \/ \E o \in Outcomes : WCommit(o)
    \/ \E o \in Outcomes : ACursor(o)
    \/ \E o \in Outcomes : AExec(o)
    \/ \E o \in Outcomes : ACommit(o)
    \/ \E o \in Outcomes : RCursor(o)
    \/ RLoop
    \/ \E o \in Outcomes : RExec(o)
    \/ \E o \in Outcomes : RFetch(o)
    \/ \E o \in Outcomes : RRollback(o)
    \/ \E o \in Outcomes : RCommit(o)
    \/ MainDeactivate
    \/ HandleInterrupt
    \/ HandleException
    \/ \E o \in Outcomes : DCursor(o)
    \/ \E o \in Outcomes : DExec(o)
    \/ \E o \in Outcomes : DCommit(o)
    \/ \E o \in Outcomes : Summary(o)
    \/ \E o \in Outcomes : Save(o)
    \/ Close

Spec == Init /\ [][Next]_vars

\* ============================================ warmup_tpch.py: warmup_queries
\* Everything execute_tpch_queries.py owns
mainv == <<inputs, pc, inHandler, loopv, sess, failv, exitStatus,
           acth, deah, runh, reph, warmh, calls>>

\* execute_tpch_queries.py is not the script being run.  present is the
\* content of --query-dir, which both scripts read.
MainIdle ==
    /\ argQueries = <<>> /\ skipWarmup = FALSE /\ warmupIterations = 0
    /\ output = FALSE
    /\ pc = "off"
    /\ inHandler = FALSE
    /\ cfgIdx = 1 /\ iteration = 0 /\ wi = 1 /\ qi = 1
    /\ acquired = FALSE /\ connOpen = FALSE /\ closeCount = 0 /\ aborted = FALSE
    /\ failPhase = "none" /\ failKind = "none" /\ failCall = "none"
    /\ swallowed = NotSwallowed
    /\ actCalls = <<>> /\ runCommits = 0
    /\ exitStatus = "running"
    /\ startIssued = 0 /\ startExecOk = FALSE /\ activated = FALSE
    /\ deactCalls = 0 /\ deactCursors = 0 /\ endIssued = 0
    /\ deactOk = FALSE /\ deactLogged = 0
    /\ runEntered = FALSE /\ runReturned = FALSE
    /\ visited = <<>> /\ attempts = <<>> /\ results = <<>>
    /\ summaryCalls = 0 /\ saveCalls = 0
    /\ warmAttempts = 0 /\ warmCommits = 0

\* warmup_queries(conn, query_dir, warmup_rounds, target_memory_gb) is called
AdaptInit ==
    /\ MainIdle
    /\ present \in {(1..SuiteSize) \ m : m \in SUBSET (1..MaxMissId)}
    /\ warmupRounds \in 0..MaxRounds
    /\ targetMemory \in 1..MaxMem
    /\ wpc = "q_cursor"
    /\ AdaptiveStart
    /\ NormIdle

\* sys_mem >= target_memory_gb * 0.95, in exact arithmetic.  For the whole GB
\* values of the model the floating point product gives the same answer.
Reached(m) == 100 * m >= 95 * targetMemory

\* final_mem < target_memory_gb * 0.9
FarBelow(m) == 100 * m < 90 * targetMemory

\* get_system_postgres_memory(): the sample v when ps answers, 0 when running
\* it raises an Exception (caught inside the function)
Sample(o, v) == IF o = "ok" THEN v ELSE 0

\* An exception of kind o leaves warmup_queries from the call at wpc
Raise(o) ==
    /\ wpc' = "q_done"
    /\ wResult' = "raised"
    /\ wFailCall' = wpc
    /\ wFailKind' = o
    /\ UNCHANGED advisory

WGoto(p) == wpc' = p /\ UNCHANGED wres

\* cur = conn.cursor()
QCursor(o) ==
    /\ wpc = "q_cursor"
    /\ IF o = "ok" THEN WGoto("q_loop") ELSE Raise(o)
    /\ UNCHANGED <<mainv, normv, wargs, roundNum, wqi, curClosed, wmem, whist>>

\* loop control of the two nested for loops and the os.path.exists test
QLoop ==
    /\ wpc = "q_loop"
    /\ IF roundNum >= warmupRounds
       THEN WGoto("q_final") /\ UNCHANGED wqi
       ELSE IF wqi > Len(WarmupSubset)
       THEN WGoto("q_commit") /\ UNCHANGED wqi
       ELSE IF WarmupSubset[wqi] \notin present
       THEN WGoto("q_loop") /\ wqi' = wqi + 1
       ELSE WGoto("q_exec") /\ UNCHANGED wqi
    /\ UNCHANGED <<mainv, normv, wargs, roundNum, curClosed, wmem, whist>>

\* read_query_file and cur.execute(query) inside the try.  A closed cursor
\* refuses the call.
QExec(o) ==
    /\ wpc = "q_exec"
    /\ curClosed => o # "ok"
    /\ execCount' = execCount + 1
    /\ execAfterReach' = IF perQueryReached THEN execAfterReach + 1 ELSE execAfterReach
    /\ CASE o = "ok"  -> WGoto("q_fetch") /\ UNCHANGED <<wAborted, wQueryFailed>>
         [] o = "err" -> WGoto("q_rollback") /\ wAborted' = TRUE /\ wQueryFailed' = TRUE
         [] o = "int" -> Raise(o) /\ UNCHANGED <<wAborted, wQueryFailed>>
    /\ UNCHANGED <<mainv, normv, wargs, roundNum, wqi, curClosed, wmem,
                   perQueryReached, roundEndReached, exitCommits, roundCommits>>

\* Mutant: a database error of fetchall leaves warmup_queries.
QFetch_Propagates(o) ==
    /\ wpc = "q_fetch"
    /\ CASE o = "ok"  -> WGoto("q_probe") /\ UNCHANGED <<wAborted, wQueryFailed>>
         [] o = "err" -> Raise(o) /\ wAborted' = TRUE /\ wQueryFailed' = TRUE
         [] o = "int" -> Raise(o) /\ UNCHANGED <<wAborted, wQueryFailed>>
    /\ UNCHANGED <<mainv, normv, wargs, roundNum, wqi, curClosed, wmem, execCount,
                   execAfterReach, perQueryReached, roundEndReached,
                   exitCommits, roundCommits>>

\* len(cur.fetchall())
QFetch(o) ==
    /\ wpc = "q_fetch"
    /\ CASE o = "ok"  -> WGoto("q_probe") /\ UNCHANGED <<wAborted, wQueryFailed>>
         [] o = "err" -> WGoto("q_rollback") /\ wAborted' = TRUE /\ wQueryFailed' = TRUE
         [] o = "int" -> Raise(o) /\ UNCHANGED <<wAborted, wQueryFailed>>
    /\ UNCHANGED <<mainv, normv, wargs, roundNum, wqi, curClosed, wmem, execCount,
                   execAfterReach, perQueryReached, roundEndReached,
                   exitCommits, roundCommits>>

\* sys_mem = get_system_postgres_memory() after the query, the threshold test
\* and, when it is met, cur.close()
QProbe(o, v) ==
    /\ wpc = "q_probe"
    /\ IF o = "int"
       THEN /\ Raise(o)
            /\ UNCHANGED <<wqi, curClosed, wmem, perQueryReached>>
       ELSE /\ sysMem' = Sample(o, v)
            /\ probeFailed' = (o = "err")
            /\ UNCHANGED finalMem
            /\ IF Reached(Sample(o, v))
               THEN /\ perQueryReached' = TRUE
                    /\ curClosed' = TRUE
                    /\ WGoto("q_exit_commit")
                    /\ UNCHANGED wqi
               ELSE /\ wqi' = wqi + 1
                    /\ WGoto("q_loop")
                    /\ UNCHANGED <<curClosed, perQueryReached>>
    /\ UNCHANGED <<mainv, normv, wargs, roundNum, execCount, execAfterReach,
                   roundEndReached, exitCommits, roundCommits, wAborted,
                   wQueryFailed>>

\* conn.commit(); return True of the early exit.  The commit is inside the
\* try: a database error it raises is caught by except Exception like a query
\* failure.
QExitCommit(o) ==
    /\ wpc = "q_exit_commit"
    /\ CASE o = "ok"  -> /\ wpc' = "q_done" /\ wResult' = "true"
                         /\ exitCommits' = exitCommits + 1
                         /\ UNCHANGED <<advisory, wFailCall, wFailKind, wAborted>>
         [] o = "err" -> /\ WGoto("q_rollback") /\ wAborted' = TRUE
                         /\ UNCHANGED exitCommits
         [] o = "int" -> Raise(o) /\ UNCHANGED <<exitCommits, wAborted>>
    /\ UNCHANGED <<mainv, normv, wargs, roundNum, wqi, curClosed, wmem, execCount,
                   execAfterReach, perQueryReached, roundEndReached,
                   roundCommits, wQueryFailed>>

\* conn.rollback() in the except clause, then the next query
QRollback(o) ==
    /\ wpc = "q_rollback"
    /\ IF o = "ok"
       THEN wAborted' = FALSE /\ wqi' = wqi + 1 /\ WGoto("q_loop")
       ELSE UNCHANGED <<wAborted, wqi>> /\ Raise(o)
    /\ UNCHANGED <<mainv, normv, wargs, roundNum, curClosed, wmem, execCount,
                   execAfterReach, perQueryReached, roundEndReached,
                   exitCommits, roundCommits, wQueryFailed>>

\* conn.commit() at the end of a round
QCommit(o) ==
    /\ wpc = "q_commit"
    /\ IF o = "ok"
       THEN roundCommits' = roundCommits + 1 /\ WGoto("q_rprobe")
       ELSE UNCHANGED roundCommits /\ Raise(o)
    /\ UNCHANGED <<mainv, normv, wargs, roundNum, wqi, curClosed, wmem, execCount,
                   execAfterReach, perQueryReached, roundEndReached,
                   exitCommits, wAborted, wQueryFailed>>

\* sys_mem = get_system_postgres_memory() at the end of a round, the threshold
\* test, and cur.close(); return True when it is met
QRoundProbe(o, v) ==
    /\ wpc = "q_rprobe"
    /\ IF o = "int"
       THEN /\ Raise(o)
            /\ UNCHANGED <<roundNum, wqi, curClosed, wmem, roundEndReached>>
       ELSE /\ sysMem' = Sample(o, v)
            /\ probeFailed' = (o = "err")
            /\ UNCHANGED finalMem
            /\ IF Reached(Sample(o, v))
               THEN /\ roundEndReached' = TRUE
                    /\ curClosed' = TRUE
                    /\ wpc' = "q_done" /\ wResult' = "true"
                    /\ UNCHANGED <<advisory, wFailCall, wFailKind, roundNum, wqi>>
               ELSE /\ roundNum' = roundNum + 1
                    /\ wqi' = 1
                    /\ WGoto("q_loop")
                    /\ UNCHANGED <<curClosed, roundEndReached>>
    /\ UNCHANGED <<mainv, normv, wargs, execCount, execAfterReach, perQueryReached,
                   exitCommits, roundCommits, wAborted, wQueryFailed>>

\* Mutant: the advisory is printed below the 0.95 threshold.
QFinal_AdvisoryBelowReached(o, v) ==
    /\ wpc = "q_final"
    /\ IF o = "int"
       THEN /\ Raise(o)
            /\ UNCHANGED <<curClosed, wmem>>
       ELSE /\ finalMem' = Sample(o, v)
            /\ probeFailed' = (o = "err")
            /\ UNCHANGED sysMem
            /\ advisory' = ~Reached(Sample(o, v))
            /\ curClosed' = TRUE
            /\ wpc' = "q_done" /\ wResult' = "false"
            /\ UNCHANGED <<wFailCall, wFailKind>>
    /\ UNCHANGED <<mainv, normv, wargs, roundNum, wqi, whist>>

\* final_mem = get_system_postgres_memory() after the rounds, the advisory,
\* cur.close(); return False
QFinal(o, v) ==
    /\ wpc = "q_final"
    /\ IF o = "int"
       THEN /\ Raise(o)
            /\ UNCHANGED <<curClosed, wmem>>
       ELSE /\ finalMem' = Sample(o, v)
            /\ probeFailed' = (o = "err")
            /\ UNCHANGED sysMem
            /\ advisory' = FarBelow(Sample(o, v))
            /\ curClosed' = TRUE
            /\ wpc' = "q_done" /\ wResult' = "false"
            /\ UNCHANGED <<wFailCall, wFailKind>>
    /\ UNCHANGED <<mainv, normv, wargs, roundNum, wqi, whist>>

AdaptNext ==
    \/ \E o \in Outcomes : QCursor(o)
    \/ QLoop
    \/ \E o \in Outcomes : QExec(o)
    \/ \E o \in Outcomes : QFetch(o)
    \/ \E o \in Outcomes, v \in 0..MaxMem : QProbe(o, v)
    \/ \E o \in Outcomes : QExitCommit(o)
    \/ \E o \in Outcomes : QRollback(o)
    \/ \E o \in Outcomes : QCommit(o)
    \/ \E o \in Outcomes, v \in 0..MaxMem : QRoundProbe(o, v)
    \/ \E o \in Outcomes, v \in 0..MaxMem : QFinal(o, v)

SpecAdaptive == AdaptInit /\ [][AdaptNext]_vars

\* ------------------------------------------------ either script is started
\* execute_tpch_queries.py with warmup, or warmup_queries of warmup_tpch.py
WarmupsInit ==
    \/ /\ Init
       /\ ~skipWarmup /\ Len(argQueries) <= 1
    \/ AdaptInit

WarmupsNext == Next \/ AdaptNext

SpecWarmups == WarmupsInit /\ [][WarmupsNext]_vars

\* ================================================== read_query_file (both)
\* A template text is a sequence of characters.  The alphabet has the
\* characters the function looks at, one ordinary character and the blanks.
Alphabet == {":", "1", "2", "3", "a", "-", "{", " ", "\n"}

Whitespace == {" ", "\n"}

Texts == {<<>>} \cup SeqsUpTo(Alphabet, MaxTextLen)

\* s.startswith(p)
StartsWith(s, p) == Len(s) >= Len(p) /\ SubSeq(s, 1, Len(p)) = p

RECURSIVE LStrip(_)
LStrip(s) ==
    IF s # <<>> /\ Head(s) \in Whitespace THEN LStrip(Tail(s)) ELSE s

RECURSIVE RStrip(_)
RStrip(s) ==
    IF s # <<>> /\ s[Len(s)] \in Whitespace
    THEN RStrip(SubSeq(s, 1, Len(s) - 1))
    ELSE s

\* line.strip()
Strip(s) == RStrip(LStrip(s))

\* the two nested if statements: the line goes to sql_lines
KeepLine(line) ==
    LET stripped == Strip(line)
    IN  /\ stripped # <<>>
        /\ ~StartsWith(stripped, <<":">>)
        /\ ~StartsWith(stripped, <<"{">>)
        /\ ~StartsWith(stripped, <<"-", "-">>)

\* length of the first line of a non-empty text, its newline included
FirstLineLen(t) ==
    IF \E i \in 1..Len(t) : t[i] = "\n"
    THEN CHOOSE i \in 1..Len(t) : t[i] = "\n" /\ \A j \in 1..(i - 1) : t[j] # "\n"
    ELSE Len(t)

\* f.readlines(), the filter loop and ''.join(sql_lines)
RECURSIVE FilterLines(_)
FilterLines(t) ==
    IF t = <<>> THEN <<>>
    ELSE LET n == FirstLineLen(t)
             line == SubSeq(t, 1, n)
         IN  (IF KeepLine(line) THEN line ELSE <<>>)
                 \o FilterLines(SubSeq(t, n + 1, Len(t)))

\* s.replace(old, new): the non-overlapping occurrences, left to right
RECURSIVE Replace(_, _, _)
Replace(s, old, new) ==
    IF s = <<>> THEN <<>>
    ELSE IF StartsWith(s, old)
    THEN new \o Replace(SubSeq(s, Len(old) + 1, Len(s)), old, new)
    ELSE <<Head(s)>> \o Replace(Tail(s), old, new)

\* the three substitutions, in the order of the code
Substitute(q) ==
    Replace(Replace(Replace(q, <<":", "1">>, <<"9", "0">>),
                    <<":", "2">>, <<"1", "5">>),
            <<":", "3">>, <<"3">>)

\* read_query_file on a file that holds t
Normalize(t) == Substitute(FilterLines(t))

\* a template text is about to be read
NormInit ==
    /\ MainIdle
    /\ present = 1..SuiteSize
    /\ AdaptiveIdle
    /\ text \in Texts
    /\ once = <<>> /\ twice = <<>>
    /\ npc = "n_raw"

\* read_query_file on the template
ReadQueryFile ==
    /\ npc = "n_raw"
    /\ once' = Normalize(text)
    /\ npc' = "n_once"
    /\ UNCHANGED <<mainv, adaptv, text, twice>>

\* read_query_file on the text it returned
ReadNormalized ==
    /\ npc = "n_once"
    /\ twice' = Normalize(once)
    /\ npc' = "n_twice"
    /\ UNCHANGED <<mainv, adaptv, text, once>>

NormNext == ReadQueryFile \/ ReadNormalized

SpecNorm == NormInit /\ [][NormNext]_vars

\* ================================================================== claims
\* The selection as main() parsed it, written out: the full suite in
\* ascending order when --queries is absent, the list as given otherwise.
Requested == IF argQueries = <<>> THEN [i \in 1..SuiteSize |-> i] ELSE argQueries

IsPresent(q) == q \in present

AttemptsOf(q) == {i \in 1..Len(attempts) : attempts[i].q = q}

\* C1 (as claimed): when a failure escapes run_tpch_queries after a successful
\* activation, the statement dcsim_end_simulation is issued exactly once
\* before the run terminates.
C1_EndCallIssuedOnce ==
    (pc = "done" /\ activated /\ failPhase = "run") => endIssued = 1

\* C1 (amended): when a failure escapes run_tpch_queries after a successful
\* activation, deactivate_dcsim is invoked exactly once before the run
\* terminates; the statement dcsim_end_simulation is issued once if the
\* cursor creation of that invocation succeeds and not at all otherwise.
C1_DeactivateAttemptedOnce ==
    (pc = "done" /\ activated /\ failPhase = "run") =>
        /\ deactCalls = 1
        /\ endIssued = deactCursors
        /\ endIssued <= 1

C1_Witness ==
    /\ pc = "done" /\ activated /\ failPhase = "run" /\ failKind = "int"
    /\ failCall = "r_fetch" /\ Len(attempts) > 0
    /\ deactCalls = 1 /\ endIssued = 1

\* C2: on every path of a run, deactivate_dcsim is invoked exactly once per
\* successful activate_dcsim, never a second time.
C2_DeactivateOncePerActivate ==
    (pc = "done" /\ activated) => deactCalls = 1

\* C3: when activation did not succeed (activate_dcsim failed, or the run
\* failed or was interrupted before it), no benchmark query phase is entered
\* and the end-of-window call is not issued.
C3_NoEndWithoutStart ==
    ~activated => (endIssued = 0 /\ ~runEntered)

\* C4: per-query isolation.  A database error of execute or fetch never
\* leaves run_tpch_queries; when run_tpch_queries returns, every requested
\* query with a present file was attempted, in the order requested (so the
\* queries after a failing one too), a query whose attempts failed has the
\* Failed outcome (success false, rows 0, time 0, an error text) and a query
\* whose attempts succeeded has a Success outcome.
C4_PerQueryIsolation ==
    /\ (failPhase = "run" /\ failKind = "err") => failCall \notin {"r_exec", "r_fetch"}
    /\ runReturned =>
        /\ [i \in 1..Len(attempts) |-> attempts[i].q] = SelectSeq(Requested, IsPresent)
        /\ \A q \in {attempts[i].q : i \in 1..Len(attempts)} :
              /\ q \in DOMAIN results
              /\ (\A i \in AttemptsOf(q) : ~attempts[i].ok) =>
                    /\ results[q].success = FALSE
                    /\ results[q].rows = 0
                    /\ results[q].time = 0
                    /\ "error" \in DOMAIN results[q]
              /\ (\A i \in AttemptsOf(q) : attempts[i].ok) =>
                    /\ results[q].success = TRUE
                    /\ results[q].rows = FetchCount(q)
                    /\ "error" \notin DOMAIN results[q]

C4_Witness ==
    /\ runReturned
    /\ \E i, j \in 1..Len(attempts) :
          /\ i < j
          /\ ~attempts[i].ok /\ attempts[j].ok
          /\ ~results[attempts[i].q].success
          /\ results[attempts[j].q].success

\* C5 (as claimed): when run_tpch_queries returns, the identifiers were
\* processed in strictly ascending order, each exactly once, for every
\* selection.
C5_AscendingOnce ==
    runReturned =>
        \A i, j \in 1..Len(visited) : i < j => visited[i] < visited[j]

\* C5 (amended): when run_tpch_queries returns, every position of the
\* selection has been processed exactly once, in the order of the selection:
\* ascending, each identifier once, for the default selection 1..22, and the
\* order and the repeats of the --queries list otherwise.
C5_SelectionOrder ==
    runReturned =>
        /\ visited = Requested
        /\ argQueries = <<>> =>
              /\ Len(visited) = SuiteSize
              /\ \A i \in 1..Len(visited) : visited[i] = i

C5_Witness ==
    /\ runReturned
    /\ Len(visited) = 2
    /\ visited[1] >= visited[2]

\* C6: when run_tpch_queries returns, the keys of the Report are exactly the
\* requested identifiers whose query file is present; a missing file adds no
\* entry and does not stop the identifiers after it.
C6_ReportKeys ==
    runReturned =>
        DOMAIN results = {q \in Range(Requested) : q \in present}

C6_Witness ==
    /\ runReturned
    /\ \E i, j \in 1..Len(visited) :
          /\ i < j
          /\ visited[i] \notin present
          /\ visited[i] \notin DOMAIN results
          /\ visited[j] \in DOMAIN results

\* C7: whenever a warmup query is about to be executed or fetched, no start
\* call has been issued and no end-of-window attempt made; whenever a
\* benchmark query is about to be executed or fetched, activate_dcsim has
\* succeeded and no end-of-window attempt has been made.
C7_WindowBracketsRun ==
    /\ pc \in {"w_exec", "w_fetch"} => (startIssued = 0 /\ deactCalls = 0)
    /\ pc \in {"r_exec", "r_fetch"} =>
          (activated /\ startExecOk /\ deactCalls = 0 /\ endIssued = 0)

C7_Witness ==
    /\ pc = "r_fetch"
    /\ warmAttempts > 0
    /\ activated /\ deactCalls = 0

\* C8: the session is closed exactly once on every exit path after it was
\* acquired.
C8_SessionClosedOnce ==
    (pc = "done" /\ acquired) => closeCount = 1

\* C9 (as claimed): on every run in which run_tpch_queries was entered,
\* print_results_summary is executed before the process exits.
C9_SummaryAlways ==
    (pc = "done" /\ runEntered) => summaryCalls >= 1

\* C9 (amended): on a run in which run_tpch_queries was entered,
\* print_results_summary is executed (once) exactly when run_tpch_queries
\* returned and the deactivate_dcsim that follows it succeeded, whatever the
\* number of failed queries; it is not executed when run_tpch_queries is left
\* by an error or an interruption or when that deactivate_dcsim fails.
C9_SummaryAfterDeactivate ==
    (pc = "done" /\ runEntered) =>
        /\ summaryCalls <= 1
        /\ summaryCalls = 1 <=> (runReturned /\ failPhase # "deactivate")

C9_Witness ==
    /\ pc = "done" /\ runEntered /\ summaryCalls = 1
    /\ Len(attempts) > 0
    /\ \A i \in 1..Len(attempts) : ~attempts[i].ok

\* C10: main() exits with 0 exactly when every phase completed, and with 1
\* on a connection failure, an exception that escapes a phase, or a user
\* interruption.
C10_ExitStatus ==
    pc = "done" =>
        /\ exitStatus = "0" <=> failKind = "none"
        /\ failKind # "none" => exitStatus = "1"

\* C11: activate_dcsim issues the provisioning call (create the
\* instrumentation facility if absent), commits, issues the start-of-window
\* call, and commits again.
C11_ProvisionThenStart ==
    activated => actCalls = <<"provision", "commit", "start", "commit">>

\* C12: reading a text that read_query_file returned gives that text again:
\* normalize(normalize(x)) = normalize(x) for every template text x.
C12_NormalizeIdempotent ==
    npc = "n_twice" => twice = once

\* C13: once a sample taken after a query is at least target * 0.95, no
\* further query is executed in that round or a later one, and when
\* warmup_queries returns it returns True after committing the session.
C13_EarlyExitImmediate ==
    perQueryReached =>
        /\ execAfterReach = 0
        /\ wResult \in {"true", "false"} => (wResult = "true" /\ exitCommits = 1)

\* The warmup subset written out: 1, 3, 6, 12, 14 restricted to the requested
\* identifiers whose query file is present.
ExpectedWarmup(q) == q \in Range(Requested) /\ q \in present

\* C14: when warmup_phase returns it has issued exactly
\* iterations * |subset| executions, failed ones included, where subset is
\* 1, 3, 6, 12, 14 restricted to the requested identifiers with a present
\* file; there is one commit per iteration, issued after the last query of
\* the iteration.
C14_FixedWarmupCount ==
    /\ (pc = "a_cursor" /\ ~skipWarmup) =>
          /\ warmAttempts = warmupIterations * Len(SelectSeq(WarmupSubset, ExpectedWarmup))
          /\ warmCommits = warmupIterations
    /\ pc \in {"w_loop", "w_exec", "w_fetch", "w_rollback", "w_commit"} =>
          warmCommits = iteration
    /\ pc = "w_commit" =>
          \A k \in 1..Len(WarmupSubset) :
              ExpectedWarmup(WarmupSubset[k]) =>
                  \E j \in 1..(wi - 1) : WarmupList[j] = WarmupSubset[k]

C14_Witness ==
    /\ pc = "a_cursor" /\ ~skipWarmup
    /\ warmupIterations = 2
    /\ warmAttempts = 10 /\ warmCommits = 2

\* 1, 3, 6, 12, 14 restricted to the files present in --query-dir
PresentSubset == SelectSeq(WarmupSubset, IsPresent)

\* C15: when warmup_queries returns and no per-query sample and no round-end
\* sample reached target * 0.95, it has run every configured round (every
\* present query once per round, one commit per round), it returns False,
\* and the advisory was printed exactly when the final sample is below
\* target * 0.90.  It raises only when a session call or an interrupt raised,
\* never for missing the target.
C15_Exhaustion ==
    /\ (wpc = "q_done" /\ wResult # "raised" /\ ~perQueryReached /\ ~roundEndReached) =>
          /\ wResult = "false"
          /\ roundNum = warmupRounds /\ roundCommits = warmupRounds
          /\ execCount = warmupRounds * Len(PresentSubset)
          /\ finalMem >= 0
          /\ advisory <=> (10 * finalMem < 9 * targetMemory)
    /\ wResult = "raised" =>
          \/ wFailKind = "int"
          \/ wFailKind = "err" /\ wFailCall \in {"q_cursor", "q_rollback", "q_commit"}

\* two rounds run to the end, the final sample lies between 0.90 and 0.95 of
\* the target: False without the advisory
C15_Witness ==
    /\ wpc = "q_done" /\ wResult = "false"
    /\ warmupRounds = 2 /\ execCount = 10
    /\ targetMemory = 10 /\ finalMem = 9 /\ ~advisory

\* C16: a database error of a warmup query never leaves warmup_phase or
\* warmup_queries: it is followed by a rollback, so that the next execute
\* and the commit find a usable session, and every present query of every
\* iteration or round before the current position has been attempted.  A
\* failing Memory Probe yields the sample 0 and never raises.
C16_WarmupSurvivesFailures ==
    /\ failKind = "err" => failCall \notin {"w_exec", "w_fetch"}
    /\ pc \in {"w_exec", "w_commit"} => ~aborted
    /\ pc = "w_loop" =>
          warmAttempts = iteration * Len(SelectSeq(WarmupSubset, ExpectedWarmup))
                         + Cardinality({j \in 1..(wi - 1) : WarmupList[j] \in present})
    /\ wFailKind = "err" =>
          wFailCall \notin {"q_exec", "q_fetch", "q_probe", "q_rprobe", "q_final"}
    /\ wpc \in {"q_exec", "q_commit"} => ~wAborted
    /\ wpc = "q_loop" =>
          execCount = roundNum * Len(PresentSubset)
                      + Cardinality({k \in 1..(wqi - 1) : WarmupSubset[k] \in present})
    /\ probeFailed => (IF wResult = "false" THEN finalMem = 0 ELSE sysMem = 0)

\* warmup_queries ran two full rounds although a query failed, and the last
\* Memory Probe failed and counted as 0
C16_Witness ==
    /\ wpc = "q_done" /\ wResult = "false"
    /\ wQueryFailed /\ ~perQueryReached
    /\ warmupRounds = 2 /\ execCount = 10
    /\ probeFailed /\ finalMem = 0 /\ advisory

\* C17: in run_tpch_queries a commit is issued after every attempted query;
\* after a failure the rollback comes before that commit, so the session is
\* not in the aborted-transaction state when the commit is issued, nor when
\* the execute of any query is issued.
C17_CommitAfterEveryQuery ==
    /\ pc \in {"r_exec", "r_commit"} => ~aborted
    /\ pc \in {"r_loop", "r_exec", "r_fetch"} => runCommits = Len(attempts)
    /\ pc \in {"r_rollback", "r_commit"} => runCommits + 1 = Len(attempts)
    /\ runReturned => runCommits = Len(attempts)

C17_Witness ==
    /\ pc = "r_exec" /\ ~aborted
    /\ Len(attempts) > 0
    /\ ~attempts[Len(attempts)].ok
    /\ runCommits = Len(attempts)

\* C18: when the deactivation attempted by a handler of main() fails with an
\* exception, whichever call of deactivate_dcsim raised it (cursor creation,
\* end call, commit), the failure is logged and main() exits with status 1.
C18_HandlerDeactivationLogged ==
    (pc = "done" /\ swallowed.kind = "err") =>
        (swallowed.logged /\ exitStatus = "1")

\* C19: when warmup_queries returns False, every sample it took, the final
\* one included, was below target * 0.95.
C19_FalseMeansAllBelow ==
    wResult = "false" =>
        /\ ~perQueryReached /\ ~roundEndReached
        /\ 100 * finalMem < 95 * targetMemory

\* The states in which the next step is a session call other than connect
SessionCallPcs ==
    {"cfg_cursor", "cfg_exec", "cfg_commit",
     "w_cursor", "w_exec", "w_fetch", "w_rollback", "w_commit",
     "a_cursor", "a_exec", "a_commit",
     "r_cursor", "r_exec", "r_fetch", "r_rollback", "r_commit",
     "d_cursor", "d_exec", "d_commit"}

\* C20: no session call is issued after the session was closed, and every
\* end-of-window attempt precedes the close.
C20_NoCallAfterClose ==
    /\ pc \in SessionCallPcs => (connOpen /\ closeCount = 0)
    /\ pc \in {"m_deact", "h_kbd", "h_exc"} => closeCount = 0
    /\ closeCount >= 1 => pc = "done"

C20_Witness ==
    /\ pc = "done" /\ closeCount = 1
    /\ deactCalls = 2 /\ endIssued >= 1

====
